---- MODULE Spec2Model ----
(***************************************************************************)
(* Model of the journal application's entry store (src/app/page.tsx):      *)
(* the DailyJournal component's state, its event handlers, the durable     *)
(* localStorage record and the asynchronous file import.                   *)
(*                                                                         *)
(* Conventions                                                             *)
(*  - A calendar date "YYYY-MM-DD" is modelled by its day number; the      *)
(*    order of day numbers is the order of new Date(date).getTime().       *)
(*  - The wall clock is the day counter `now`; toLocaleString() of the    *)
(*    clock is modelled by the counter itself.                             *)
(*  - Sequences are 1-based: findIndex's -1 ("not found") is 0 here.       *)
(*  - One action is one event handler (or one effect run) executed to      *)
(*    completion followed by React's re-render, so a handler always sees   *)
(*    the state of the latest render; the FileReader onload callback keeps *)
(*    the savedEntries of the render in which importData created it.       *)
(***************************************************************************)
EXTENDS Integers, Sequences, FiniteSets, TLC

\* ------------------------------------------------------------------ bounds

\* Last day of the modelled wall clock (days 0..MaxNow).
MaxNow == 1
\* Largest number of saved entries the model lets the store grow to.
MaxEntries == 2
\* Largest number of entries in an import payload.
MaxPayload == 2
\* How many parts of the form (todos, rated dimensions, non-empty text
\* fields, pending todo text, non-default priority) may be filled in at once.
MaxFilled == 1
\* Number of handler runs explored from a first visit by the specification
\* that interleaves every handler (SpecAll).
MaxSteps == 4
\* Longest todo list of the task statistics.
MaxTodos == 40
\* Most saved entries of the rating averages.
MaxRated == 19
\* Most saved entries of the insights.
MaxStreak == 8
\* Most filled-in parts (todos, pending todo text, selected priority) of
\* the todo form.
MaxList == 3

\* ------------------------------------------------------------ data model

Priorities == {"high", "medium", "low"}

RatingTypes == {"overall", "energy", "productivity", "mood"}

\* The star buttons of StarRating: [1, 2, 3, 4, 5].
Stars == 1..5

TextFields ==
    << "mainGoal", "accomplishments", "goodThings", "grateful", "kindness",
       "lessons", "improvements", "challenges", "emotions",
       "futureImprovements", "tomorrowGoals", "affirmation" >>

TextFieldSet == {TextFields[i] : i \in 1..Len(TextFields)}

\* Text a user types into a text field.
TextValues == {"", "a"}

\* Text a user types into the new-todo input (blank, whitespace only, text).
TodoTexts == {"", " ", "a"}

\* new Date().toISOString().split("T")[0] when the clock shows t.
DateOf(t) == t + 1

\* String.prototype.trim() on the modelled todo texts.
Trim(s) == IF s = " " THEN "" ELSE s

\* The module-level constant initialEntry, evaluated when the page's script
\* is loaded while the clock shows t.
MakeInitialEntry(t) ==
    [ date               |-> DateOf(t),
      timestamp          |-> t,
      todos              |-> << >>,
      mainGoal           |-> "",
      accomplishments    |-> "",
      goodThings         |-> "",
      grateful           |-> "",
      kindness           |-> "",
      ratings            |-> [overall |-> 0, energy |-> 0, productivity |-> 0, mood |-> 0],
      lessons            |-> "",
      improvements       |-> "",
      challenges         |-> "",
      emotions           |-> "",
      futureImprovements |-> "",
      tomorrowGoals      |-> "",
      affirmation        |-> "" ]

\* ------------------------------------------------------- durable storage

\* An item of localStorage: whether the key is present, whether its text
\* is JSON, and the value the text denotes.
\* localStorage.getItem(key) === null
NoItem == [present |-> FALSE, json |-> TRUE, value |-> << >>]

\* JSON.stringify(v) stored under a key.  The values written by this page
\* (strings, booleans, integers, arrays and plain objects of these) survive
\* JSON.stringify / JSON.parse unchanged, so the item carries the value.
JSONStringify(v) == [present |-> TRUE, json |-> TRUE, value |-> v]

\* Text under a key that JSON.parse rejects with a SyntaxError.
CorruptItem == [present |-> TRUE, json |-> FALSE, value |-> << >>]

\* JSON.parse(item) of an item written by JSONStringify.
JSONParse(item) == item.value

\* ------------------------------------------------------------- variables

VARIABLES
    now,              \* wall clock
    initialEntry,     \* module constant initialEntry of the loaded page
    entry,            \* useState: the working entry
    newTodo,          \* useState: text of the new-todo input
    todoPriority,     \* useState: priority selected for the next todo
    savedEntries,     \* useState: the saved-entries collection
    showClearConfirm, \* useState: clear-confirmation prompt open
    isDarkMode,       \* useState: theme
    localStorage,     \* durable record: keys journalEntries, journalTheme
    pending,          \* FileReader reads in flight, each with its closure
    last,             \* the dialogs shown by the latest handler run
    downloads,        \* exported documents the user kept in the download folder
    steps             \* handler runs so far, as far as a specification counts them

vars == << now, initialEntry, entry, newTodo, todoPriority, savedEntries,
           showClearConfirm, isDarkMode, localStorage, pending, last,
           downloads, steps >>

\* What the latest handler run showed to the user: the handler, the answer
\* given to window.confirm, the alert, the counts the import alert reports
\* and the document exportData offers for download.  `stale` records
\* whether an onload callback ran on a savedEntries other than the current
\* one, `threw` whether an exception left the handler uncaught.
NoDialog(op) ==
    [ op |-> op, confirm |-> "none", alert |-> "none",
      imported |-> 0, skipped |-> 0, exported |-> << >>, stale |-> FALSE,
      threw |-> FALSE ]

\* The latest handler run showed no dialog.
Silent == NoDialog("silent")


\* --------------------------------------------------------- pure helpers

\* Mutant of FindIndex: never finds the date.
FindIndexNever(entries, d) == 0

\* savedEntries.findIndex((e) => e.date === d): the first position holding
\* date d, 0 when there is none.
FindIndex(entries, d) ==
    IF \E i \in 1..Len(entries) : entries[i].date = d
    THEN CHOOSE i \in 1..Len(entries) :
            /\ entries[i].date = d
            /\ \A j \in 1..(i - 1) : entries[j].date # d
    ELSE 0

\* Mutant of NewEntriesOnSave: an existing entry is removed and the new one
\* is put at the end.
NewEntriesMoveToEnd(entries, existingIndex, updatedEntry) ==
    IF existingIndex > 0
    THEN Append(SubSeq(entries, 1, existingIndex - 1)
                    \o SubSeq(entries, existingIndex + 1, Len(entries)), updatedEntry)
    ELSE Append(entries, updatedEntry)

\* Mutant of NewEntriesOnSave: a new entry is put in front.
NewEntriesPrepend(entries, existingIndex, updatedEntry) ==
    IF existingIndex > 0
    THEN [entries EXCEPT ![existingIndex] = updatedEntry]
    ELSE << updatedEntry >> \o entries

\* newEntries of saveEntry: a copy with the entry at existingIndex replaced,
\* or a copy with the entry appended.
NewEntriesOnSave(entries, existingIndex, updatedEntry) ==
    IF existingIndex > 0
    THEN [entries EXCEPT ![existingIndex] = updatedEntry]
    ELSE Append(entries, updatedEntry)

\* new Set(savedEntries.map((entry) => entry.date))
ExistingDates(entries) == {entries[i].date : i \in 1..Len(entries)}

\* Mutant of FilterNewEntries: nothing is filtered out.
FilterNothing(entries, items) == items

\* importedData.entries.filter((entry) => !existingDates.has(entry.date))
FilterNewEntries(entries, items) ==
    LET existingDates == ExistingDates(entries)
        Keep(e) == e.date \notin existingDates
    IN SelectSeq(items, Keep)

\* Array.prototype.sort with the comparator date(a) - date(b): a stable
\* sort by ascending date (insertion of each element after the last element
\* whose date is not greater).
\* Mutant of InsertByDate: the element goes in front of the elements of its
\* own date (a sort that is not stable).
RECURSIVE InsertByDateBeforeEqual(_, _)
InsertByDateBeforeEqual(sorted, e) ==
    IF sorted = << >> THEN << e >>
    ELSE IF sorted[Len(sorted)].date < e.date THEN Append(sorted, e)
    ELSE Append(InsertByDateBeforeEqual(SubSeq(sorted, 1, Len(sorted) - 1), e),
                sorted[Len(sorted)])

RECURSIVE InsertByDate(_, _)
InsertByDate(sorted, e) ==
    IF sorted = << >> THEN << e >>
    ELSE IF sorted[Len(sorted)].date <= e.date THEN Append(sorted, e)
    ELSE Append(InsertByDate(SubSeq(sorted, 1, Len(sorted) - 1), e), sorted[Len(sorted)])

RECURSIVE SortByDate(_)
SortByDate(entries) ==
    IF entries = << >> THEN << >>
    ELSE InsertByDate(SortByDate(SubSeq(entries, 1, Len(entries) - 1)), entries[Len(entries)])

\* mergedEntries of the onload callback.
MergedEntries(entries, items) ==
    SortByDate(entries \o FilterNewEntries(entries, items))

\* ------------------------------------------------------- import payloads

\* The value of the `entries` property of the parsed document.
NoEntriesField == [type |-> "undefined", num |-> 0, items |-> << >>]
NumberField(n) == [type |-> "number", num |-> n, items |-> << >>]
ArrayField(items) == [type |-> "array", num |-> 0, items |-> items]

\* The text of a selected file: whether JSON.parse accepts it, whether the
\* parsed value is null, and the value's `entries` property.
NotJSONFile == [json |-> FALSE, isNull |-> FALSE, entries |-> NoEntriesField]
NullFile == [json |-> TRUE, isNull |-> TRUE, entries |-> NoEntriesField]
ObjectFile(field) == [json |-> TRUE, isNull |-> FALSE, entries |-> field]

\* JavaScript truthiness of the `entries` property.
Truthy(field) ==
    CASE field.type = "undefined" -> FALSE
      [] field.type = "number" -> field.num # 0
      [] OTHER -> TRUE

\* Mutant of PassesValidation: the Array.isArray test is missing.
PassesValidationNoArrayCheck(file) ==
    /\ file.json
    /\ ~file.isNull
    /\ Truthy(file.entries)

\* Whether the try block of the onload callback gets past JSON.parse and the
\* format check without throwing.
PassesValidation(file) ==
    /\ file.json
    /\ ~file.isNull
    /\ Truthy(file.entries)
    /\ file.entries.type = "array"

\* Dates of the entries found in import files: the first modelled day and
\* the day after it.
PayloadDates == {DateOf(0), DateOf(1)}

\* Distinguishing content of entries found in import files.
PayloadGoals == {"p"}

\* An entry of an import file: written by some earlier export.
PayloadEntry(d, g) == [MakeInitialEntry(0) EXCEPT !.date = d, !.mainGoal = g]

PayloadEntries == {PayloadEntry(d, g) : d \in PayloadDates, g \in PayloadGoals}

PayloadSeqs == UNION {[1..n -> PayloadEntries] : n \in 0..MaxPayload}

\* Files a user may select for import.
Files ==
    {NotJSONFile, NullFile, ObjectFile(NoEntriesField), ObjectFile(NumberField(5))}
        \cup {ObjectFile(ArrayField(items)) : items \in PayloadSeqs}

\* An imported entry that lacks some fields of JournalEntry: the format
\* check of the import looks at the `entries` array only, not at its items.
Without(e, fields) == [f \in (DOMAIN e) \ fields |-> e[f]]

SparseEntries ==
    {Without(e, fields) :
        e \in PayloadEntries, fields \in {{"ratings"}, {"todos"}, {"ratings", "todos"}}}

\* Files holding one entry that lacks fields.
SparseFiles == {ObjectFile(ArrayField(<< e >>)) : e \in SparseEntries}

\* ------------------------------------------------------------- rendering

\* Whether property f of the entry is defined; reading a property of an
\* undefined one (e.ratings.mood, e.todos.length) throws a TypeError.
HasField(e, f) == f \in DOMAIN e

\* The number of trailing entries the Recent Trends and the insights show:
\* savedEntries.slice(-7).
TrendWindow == 7

\* savedEntries.slice(-TrendWindow)
RecentEntries(entries) ==
    SubSeq(entries, IF Len(entries) > TrendWindow THEN Len(entries) - TrendWindow + 1 ELSE 1,
           Len(entries))

\* The rating averages read e.ratings.overall of every saved entry and of
\* the working entry.
RatingAveragesThrows(entries, e) ==
    LET allEntries == Append(entries, e)
    IN \E i \in 1..Len(allEntries) : ~HasField(allEntries[i], "ratings")

\* The task completion trend reads savedEntry.todos.length, the mood trend
\* savedEntry.ratings.mood, the insights both, of the recent entries.
TrendsThrow(entries) ==
    LET recentEntries == RecentEntries(entries)
    IN \E i \in 1..Len(recentEntries) :
          \/ ~HasField(recentEntries[i], "todos")
          \/ ~HasField(recentEntries[i], "ratings")

\* Whether rendering the page throws: the analytics card is rendered when
\* the store is not empty.
RenderThrows(entries, e) ==
    /\ Len(entries) > 0
    /\ \/ RatingAveragesThrows(entries, e)
       \/ TrendsThrow(entries)

\* --------------------------------------------------------------- numbers

\* The numbers of the page are IEEE 754 doubles.  A non-zero double is kept
\* as its Precision significant bits, most significant first, and an
\* exponent: its value is 0.b1 b2 ... b53 (binary) * 2^exp with b1 = 1.
\* Zero has no bits.
Precision == 53

Zero == [bits |-> << >>, exp |-> 0]

\* Scale a/b by powers of two into [1/2, 1).
RECURSIVE Normalised(_, _, _)
Normalised(a, b, e) ==
    IF a >= b THEN Normalised(a, 2 * b, e + 1)
    ELSE IF 2 * a < b THEN Normalised(2 * a, b, e - 1)
    ELSE [num |-> a, den |-> b, exp |-> e]

\* 2^i modulo b, by repeated squaring.
RECURSIVE Pow2Mod(_, _)
Pow2Mod(i, b) ==
    IF i = 0 THEN 1 % b
    ELSE LET h == Pow2Mod(i \div 2, b)
         IN (h * h * (IF i % 2 = 1 THEN 2 ELSE 1)) % b

\* The first n bits of the binary expansion of r/b, for r < b, and what is
\* left of the dividend: after i steps of the long division the remainder
\* is r * 2^i modulo b.
LongDivision(r, b, n) ==
    [bits |-> [i \in 1..n |-> (2 * ((r * Pow2Mod(i - 1, b)) % b)) \div b],
     rem  |-> (r * Pow2Mod(n, b)) % b]

\* bits + 1, with the carry out of the most significant bit.
Increment(bits) ==
    LET zeros == {i \in 1..Len(bits) : bits[i] = 0}
    IN IF zeros = {}
       THEN [bits |-> [i \in 1..Len(bits) |-> 0], carry |-> 1]
       ELSE LET j == CHOOSE i \in zeros : \A k \in zeros : k <= i
            IN [bits  |-> [i \in 1..Len(bits) |->
                              IF i < j THEN bits[i] ELSE IF i = j THEN 1 ELSE 0],
                carry |-> 0]

\* Round 0.bits * 2^exp, with more non-zero bits behind when `sticky`, to
\* the nearest double, ties to the even one.
RoundToNearestEven(bits, sticky, exp) ==
    LET kept  == SubSeq(bits, 1, Precision)
        guard == IF Len(bits) > Precision THEN bits[Precision + 1] ELSE 0
        more  == sticky \/ \E i \in (Precision + 2)..Len(bits) : bits[i] = 1
        up    == guard = 1 /\ (more \/ kept[Precision] = 1)
        inc   == Increment(kept)
    IN IF ~up THEN [bits |-> kept, exp |-> exp]
       ELSE IF inc.carry = 1
            THEN [bits |-> << 1 >> \o SubSeq(inc.bits, 1, Precision - 1), exp |-> exp + 1]
            ELSE [bits |-> inc.bits, exp |-> exp]

\* a / b of two integers a >= 0, b > 0.
Divide(a, b) ==
    IF a = 0 THEN Zero
    ELSE LET s == Normalised(a, b, 0)
             q == LongDivision(s.num, s.den, Precision + 1)
         IN RoundToNearestEven(q.bits, q.rem # 0, s.exp)

\* The integer with the binary digits `bits`, fewer than 31 of them.
RECURSIVE BitsValue(_)
BitsValue(bits) ==
    IF bits = << >> THEN 0
    ELSE IF Len(bits) = 1 THEN bits[1]
    ELSE LET half == Len(bits) \div 2
         IN BitsValue(SubSeq(bits, 1, half)) * 2^(Len(bits) - half)
               + BitsValue(SubSeq(bits, half + 1, Len(bits)))

\* The n low binary digits of v.
ToBits(v, n) == [i \in 1..n |-> (v \div 2^(n - i)) % 2]

\* The binary digits of c < 2^30, none for 0.
CarryBits(c) == ToBits(c, CHOOSE n \in 0..30 : 2^n > c /\ (n = 0 \/ 2^(n - 1) <= c))

\* The digits of the exact product bits * k + carry, for k < 2^12, taken
\* from the least significant end in pieces of 18 bits.
RECURSIVE MulSmall(_, _, _)
MulSmall(bits, k, carry) ==
    IF bits = << >>
    THEN CarryBits(carry)
    ELSE LET n     == Len(bits)
             width == IF n < 18 THEN n ELSE 18
             v     == BitsValue(SubSeq(bits, n - width + 1, n)) * k + carry
         IN MulSmall(SubSeq(bits, 1, n - width), k, v \div 2^width)
               \o ToBits(v % 2^width, width)

\* The exact product x * k, for an integer k > 0: 0.bits * 2^exp, unrounded.
ExactTimes(x, k) ==
    LET product == MulSmall(x.bits, k, 0)
    IN [bits |-> product, exp |-> x.exp + Len(product) - Len(x.bits)]

\* x * k
Times(x, k) ==
    IF x = Zero THEN Zero
    ELSE LET p == ExactTimes(x, k) IN RoundToNearestEven(p.bits, FALSE, p.exp)

\* The integer nearest to 0.bits * 2^exp, the larger one of two.
RoundHalfUp(x) ==
    IF x.exp < 0 \/ x.bits = << >> THEN 0
    ELSE BitsValue(SubSeq(x.bits, 1, x.exp))
            + (IF x.exp < Len(x.bits) THEN x.bits[x.exp + 1] ELSE 0)

\* Math.round(x), x >= 0
MathRound(x) == RoundHalfUp(x)

\* Number(x.toFixed(1)), x >= 0, in tenths: toFixed takes the integer n for
\* which n / 10 - x is as close to zero as possible, the larger of two.
ToFixed1(x) == IF x = Zero THEN 0 ELSE RoundHalfUp(ExactTimes(x, 10))

\* The integer part of x >= 0.
Floor(x) ==
    IF x.exp <= 0 \/ x.bits = << >> THEN 0
    ELSE BitsValue(SubSeq(x.bits, 1, IF x.exp < Len(x.bits) THEN x.exp ELSE Len(x.bits)))

\* Whether x >= 0 is not an integer.
HasFraction(x) == \E i \in 1..Len(x.bits) : i > x.exp /\ x.bits[i] = 1

\* Mutant of AtLeast: x > n.
GreaterThan(x, n) == Floor(x) > n \/ (Floor(x) = n /\ HasFraction(x))

\* x >= n, for an integer n >= 0
AtLeast(x, n) == Floor(x) >= n

\* x <= n, for an integer n >= 0
AtMost(x, n) == Floor(x) < n \/ (Floor(x) = n /\ ~HasFraction(x))

\* ------------------------------------------------------------ statistics

getProductivityStats(e) ==
    LET total         == Len(e.todos)
        completed     == Len(SelectSeq(e.todos, LAMBDA todo : todo.completed))
        highPriority  == Len(SelectSeq(e.todos, LAMBDA todo : todo.priority = "high"))
        completedHigh == Len(SelectSeq(e.todos, LAMBDA todo : todo.priority = "high" /\ todo.completed))
    IN [ total            |-> total,
         completed        |-> completed,
         completionRate   |-> IF total > 0
                              THEN MathRound(Times(Divide(completed, total), 100))
                              ELSE 0,
         highPriority     |-> highPriority,
         completedHigh    |-> completedHigh,
         highPriorityRate |-> IF highPriority > 0
                              THEN MathRound(Times(Divide(completedHigh, highPriority), 100))
                              ELSE 0 ]

\* The sum of a sequence of integers.
RECURSIVE Sum(_)
Sum(seq) ==
    IF seq = << >> THEN 0
    ELSE IF Len(seq) = 1 THEN seq[1]
    ELSE LET half == Len(seq) \div 2
         IN Sum(SubSeq(seq, 1, half)) + Sum(SubSeq(seq, half + 1, Len(seq)))

\* Whether an entry has one of its four ratings set.
Rated(e) ==
    e.ratings.overall > 0 \/ e.ratings.energy > 0 \/ e.ratings.productivity > 0 \/ e.ratings.mood > 0

\* `return null`: nothing is shown.
NoAverages == [shown |-> FALSE, overall |-> 0, energy |-> 0, productivity |-> 0, mood |-> 0]

\* The averages of the analytics card, in tenths:
\* Number((allEntries.reduce((sum, e) => sum + e.ratings.overall, 0) / allEntries.length).toFixed(1))
Average(allEntries, type) ==
    ToFixed1(Divide(Sum([i \in 1..Len(allEntries) |-> allEntries[i].ratings[type]]),
                    Len(allEntries)))

RatingAverages(entries, e) ==
    LET allEntries == SelectSeq(Append(entries, e), Rated)
    IN IF Len(allEntries) = 0
       THEN NoAverages
       ELSE [shown        |-> TRUE,
             overall      |-> Average(allEntries, "overall"),
             energy       |-> Average(allEntries, "energy"),
             productivity |-> Average(allEntries, "productivity"),
             mood         |-> Average(allEntries, "mood")]

\* v || 0 of a number v.
OrZero(v) == IF v = 0 THEN 0 ELSE v

\* The messages of the Personal Insights card, in the order they are
\* pushed.
Insights(entries) ==
    LET recentEntries   == RecentEntries(entries)
        size            == Len(recentEntries)
        avgMood         ==
            Divide(Sum([i \in 1..size |-> OrZero(recentEntries[i].ratings.mood)]), size)
        \* sum + e.ratings.productivity || 0 is (sum + e.ratings.productivity) || 0
        avgProductivity ==
            Divide(Sum([i \in 1..size |-> recentEntries[i].ratings.productivity]), size)
        totalTasks      == Sum([i \in 1..size |-> Len(recentEntries[i].todos)])
        completedTasks  ==
            Sum([i \in 1..size |->
                    Len(SelectSeq(recentEntries[i].todos, LAMBDA t : t.completed))])
        completionRate  ==
            IF totalTasks > 0 THEN Times(Divide(completedTasks, totalTasks), 100) ELSE Zero
        mood            ==
            IF AtLeast(avgMood, 4) THEN << "greatSpirits" >>
            ELSE IF AtMost(avgMood, 2) THEN << "selfCare" >>
            ELSE << >>
        completion      ==
            IF AtLeast(completionRate, 80) THEN << "excellentCompletion" >>
            ELSE IF AtMost(completionRate, 50) THEN << "breakDownTasks" >>
            ELSE << >>
        productivity    ==
            IF AtLeast(avgProductivity, 4) THEN << "greatMomentum" >> ELSE << >>
        streak          ==
            IF Len(entries) >= 7 THEN << "streak" >> ELSE << >>
        insights        ==
            IF size > 0 THEN mood \o completion \o productivity \o streak ELSE << >>
    IN IF Len(insights) = 0 THEN << "keepJournaling" >> ELSE insights

\* ------------------------------------------------------------ form size

Count(b) == IF b THEN 1 ELSE 0

\* How many parts of the working entry are filled in.
Filled(e) ==
    Len(e.todos)
        + Cardinality({t \in RatingTypes : e.ratings[t] # 0})
        + Cardinality({f \in TextFieldSet : e[f] # ""})

FormSize(e, text, priority) ==
    Filled(e) + Count(text # "") + Count(priority # "medium")

\* ------------------------------------------------------------------ init

\* Theme written by the [isDarkMode] effect.
ThemeName(dark) == IF dark THEN "dark" ELSE "light"

\* The mount effects of DailyJournal, run to quiescence on `storage`:
\* the first effect reads both keys; the second writes the theme.
LoadedEntries(storage) ==
    IF storage.journalEntries.present
    THEN JSONParse(storage.journalEntries)
    ELSE << >>

\* Mutant of LoadedTheme: the theme is read after the [isDarkMode] effect
\* has written the default.
LoadedThemeAfterDefaultWrite(storage) == TRUE

LoadedTheme(storage) ==
    IF storage.journalTheme.present
    THEN storage.journalTheme.value = "dark"
    ELSE TRUE

\* A first visit: empty localStorage, page loaded on day 0.
Init ==
    /\ now = 0
    /\ initialEntry = MakeInitialEntry(0)
    /\ entry = MakeInitialEntry(0)
    /\ newTodo = ""
    /\ todoPriority = "medium"
    /\ savedEntries = << >>
    /\ showClearConfirm = FALSE
    /\ isDarkMode = TRUE
    /\ localStorage = [journalEntries |-> NoItem, journalTheme |-> JSONStringify("dark")]
    /\ pending = << >>
    /\ last = Silent
    /\ downloads = << >>
    /\ steps = 0

\* The entry a visit of the day before day 0 has saved.
EarlierEntry == [MakeInitialEntry(-1) EXCEPT !.mainGoal = "a"]

\* A returning visit: the page is loaded on day 0 over a localStorage that
\* holds the entry saved the day before.
InitReturning ==
    /\ now = 0
    /\ initialEntry = MakeInitialEntry(0)
    /\ entry = MakeInitialEntry(0)
    /\ newTodo = ""
    /\ todoPriority = "medium"
    /\ savedEntries = << EarlierEntry >>
    /\ showClearConfirm = FALSE
    /\ isDarkMode = TRUE
    /\ localStorage = [journalEntries |-> JSONStringify(<< EarlierEntry >>),
                       journalTheme |-> JSONStringify("dark")]
    /\ pending = << >>
    /\ last = Silent
    /\ downloads = << >>
    /\ steps = 0


\* --------------------------------------------------------------- actions

\* Time passes.
Tick ==
    /\ now < MaxNow
    /\ now' = now + 1
    /\ UNCHANGED << initialEntry, entry, newTodo, todoPriority, savedEntries,
                    showClearConfirm, isDarkMode, localStorage, pending, last >>

\* Whether JSON.parse(saved) of the load effect throws.
LoadThrows(storage) ==
    /\ storage.journalEntries.present
    /\ ~storage.journalEntries.json

\* The load effect throws at JSON.parse(saved): nothing catches the
\* SyntaxError, the component tree is unmounted, and the state is the one
\* useState started from.  Whether the theme effect still ran before the
\* unmount depends on the React build, so both outcomes are allowed.
LoadFailed ==
    /\ initialEntry' = MakeInitialEntry(now)
    /\ entry' = MakeInitialEntry(now)
    /\ newTodo' = ""
    /\ todoPriority' = "medium"
    /\ savedEntries' = << >>
    /\ showClearConfirm' = FALSE
    /\ isDarkMode' = TRUE
    /\ \/ localStorage' = localStorage
       \/ localStorage' = [localStorage EXCEPT !.journalTheme = JSONStringify("dark")]
    /\ pending' = << >>
    /\ last' = [NoDialog("load") EXCEPT !.threw = TRUE]
    /\ UNCHANGED now

\* The page is mounted: the last page load did not end in an uncaught error.
Mounted == ~(last.op = "load" /\ last.threw)

\* Something other than this page (another script of the origin, an
\* extension, the developer tools, an interrupted write) leaves text that is
\* not JSON under the journalEntries key.
corruptRecord ==
    /\ localStorage.journalEntries # CorruptItem
    /\ localStorage' = [localStorage EXCEPT !.journalEntries = CorruptItem]
    /\ UNCHANGED << now, initialEntry, entry, newTodo, todoPriority, savedEntries,
                    showClearConfirm, isDarkMode, pending, last >>

\* The page loads and both mount effects complete.
LoadCompleted ==
    /\ initialEntry' = MakeInitialEntry(now)
    /\ entry' = MakeInitialEntry(now)
    /\ newTodo' = ""
    /\ todoPriority' = "medium"
    /\ savedEntries' = LoadedEntries(localStorage)
    /\ showClearConfirm' = FALSE
    /\ isDarkMode' = LoadedTheme(localStorage)
    /\ localStorage' =
         [localStorage EXCEPT !.journalTheme = JSONStringify(ThemeName(LoadedTheme(localStorage)))]
    /\ pending' = << >>
    /\ last' = Silent
    /\ UNCHANGED now

\* The page is loaded again: the module constant is re-evaluated, every
\* useState starts from its initial value, the mount effects read
\* localStorage, and the readers of the page that was left are gone.
Load ==
    IF LoadThrows(localStorage) THEN LoadFailed ELSE LoadCompleted

toggleTheme ==
    /\ isDarkMode' = ~isDarkMode
    /\ localStorage' =
         [localStorage EXCEPT !.journalTheme = JSONStringify(ThemeName(~isDarkMode))]
    /\ last' = Silent
    /\ UNCHANGED << now, initialEntry, entry, newTodo, todoPriority, savedEntries,
                    showClearConfirm, pending >>

\* onChange of the new-todo input (fires when the text changes).
setNewTodoWithin(text, maxFilled) ==
    /\ FormSize(entry, text, todoPriority) <= maxFilled
    /\ text # newTodo
    /\ newTodo' = text
    /\ last' = Silent
    /\ UNCHANGED << now, initialEntry, entry, todoPriority, savedEntries,
                    showClearConfirm, isDarkMode, localStorage, pending >>

setNewTodo(text) == setNewTodoWithin(text, MaxFilled)

\* onChange of the priority select (fires when the selection changes).
setTodoPriorityWithin(priority, maxFilled) ==
    /\ FormSize(entry, newTodo, priority) <= maxFilled
    /\ priority # todoPriority
    /\ todoPriority' = priority
    /\ last' = Silent
    /\ UNCHANGED << now, initialEntry, entry, newTodo, savedEntries,
                    showClearConfirm, isDarkMode, localStorage, pending >>

setTodoPriority(priority) == setTodoPriorityWithin(priority, MaxFilled)

\* Mutant of addTodo: the input is not trimmed before it is tested.
addTodoNoTrim ==
    /\ IF newTodo # ""
       THEN /\ entry' = [entry EXCEPT !.todos =
                           Append(@, [text |-> newTodo, completed |-> FALSE, priority |-> todoPriority])]
            /\ newTodo' = ""
       ELSE UNCHANGED << entry, newTodo >>
    /\ last' = Silent
    /\ UNCHANGED << now, initialEntry, todoPriority, savedEntries,
                    showClearConfirm, isDarkMode, localStorage, pending >>

addTodo ==
    /\ IF Trim(newTodo) # ""
       THEN /\ entry' = [entry EXCEPT !.todos =
                           Append(@, [text |-> newTodo, completed |-> FALSE, priority |-> todoPriority])]
            /\ newTodo' = ""
       ELSE UNCHANGED << entry, newTodo >>
    /\ last' = Silent
    /\ UNCHANGED << now, initialEntry, todoPriority, savedEntries,
                    showClearConfirm, isDarkMode, localStorage, pending >>

toggleTodo(index) ==
    /\ entry' = [entry EXCEPT !.todos =
                    [i \in 1..Len(@) |->
                        IF i = index THEN [@[i] EXCEPT !.completed = ~@] ELSE @[i]]]
    /\ last' = Silent
    /\ UNCHANGED << now, initialEntry, newTodo, todoPriority, savedEntries,
                    showClearConfirm, isDarkMode, localStorage, pending >>

removeTodo(index) ==
    /\ entry' = [entry EXCEPT !.todos =
                    SubSeq(@, 1, index - 1) \o SubSeq(@, index + 1, Len(@))]
    /\ last' = Silent
    /\ UNCHANGED << now, initialEntry, newTodo, todoPriority, savedEntries,
                    showClearConfirm, isDarkMode, localStorage, pending >>

\* Mutant of updateRatingWithin: a click on the star that is already set
\* takes the rating back.
updateRatingTogglesOff(type, rating, maxFilled) ==
    /\ FormSize([entry EXCEPT !.ratings[type] = rating], newTodo, todoPriority) <= maxFilled
    /\ entry' = [entry EXCEPT !.ratings[type] = IF @ = rating THEN 0 ELSE rating]
    /\ last' = Silent
    /\ UNCHANGED << now, initialEntry, newTodo, todoPriority, savedEntries,
                    showClearConfirm, isDarkMode, localStorage, pending >>

\* updateRating on a form that holds at most maxFilled filled-in parts
\* afterwards.
updateRatingWithin(type, rating, maxFilled) ==
    /\ FormSize([entry EXCEPT !.ratings[type] = rating], newTodo, todoPriority) <= maxFilled
    /\ entry' = [entry EXCEPT !.ratings[type] = rating]
    /\ last' = Silent
    /\ UNCHANGED << now, initialEntry, newTodo, todoPriority, savedEntries,
                    showClearConfirm, isDarkMode, localStorage, pending >>

updateRating(type, rating) == updateRatingWithin(type, rating, MaxFilled)

\* onChange of one of the text areas: setEntry((prev) => ({...prev, [field]: value})).
setText(field, value) ==
    /\ FormSize([entry EXCEPT ![field] = value], newTodo, todoPriority) <= MaxFilled
    /\ entry[field] # value
    /\ entry' = [entry EXCEPT ![field] = value]
    /\ last' = Silent
    /\ UNCHANGED << now, initialEntry, newTodo, todoPriority, savedEntries,
                    showClearConfirm, isDarkMode, localStorage, pending >>

\* Mutant of SaveDeclined: the working entry is reset before returning.
SaveDeclinedResetsEntry ==
    /\ entry' = initialEntry
    /\ last' = [NoDialog("saveEntry") EXCEPT !.confirm = "declined"]
    /\ UNCHANGED << now, initialEntry, newTodo, todoPriority, savedEntries,
                    showClearConfirm, isDarkMode, localStorage, pending >>

\* saveEntry when window.confirm returns false: `if (!confirmOverwrite) return`.
SaveDeclined ==
    /\ last' = [NoDialog("saveEntry") EXCEPT !.confirm = "declined"]
    /\ UNCHANGED << now, initialEntry, entry, newTodo, todoPriority, savedEntries,
                    showClearConfirm, isDarkMode, localStorage, pending >>

\* saveEntry from setSavedEntries(newEntries) to the alert.
SaveCommitted(newEntries, confirm) ==
    /\ Len(newEntries) <= MaxEntries
    /\ savedEntries' = newEntries
    /\ localStorage' = [localStorage EXCEPT !.journalEntries = JSONStringify(newEntries)]
    /\ entry' = initialEntry
    /\ last' = [NoDialog("saveEntry") EXCEPT !.confirm = confirm, !.alert = "saved"]
    /\ UNCHANGED << now, initialEntry, newTodo, todoPriority,
                    showClearConfirm, isDarkMode, pending >>

\* saveEntry when localStorage.setItem throws (quota exceeded, storage
\* disabled): setSavedEntries(newEntries) has been called and takes effect,
\* the exception leaves the handler, setEntry and the alert are not reached.
SaveWriteFailed(newEntries, confirm) ==
    /\ Len(newEntries) <= MaxEntries
    /\ savedEntries' = newEntries
    /\ last' = [NoDialog("saveEntry") EXCEPT !.confirm = confirm, !.threw = TRUE]
    /\ UNCHANGED << now, initialEntry, entry, newTodo, todoPriority,
                    showClearConfirm, isDarkMode, localStorage, pending >>

\* saveEntry; confirmOverwrite is the answer window.confirm returns when
\* the handler asks, writeSucceeds whether localStorage.setItem returns.
saveEntryOn(confirmOverwrite, writeSucceeds) ==
    LET updatedEntry == [entry EXCEPT !.timestamp = now]
        existingIndex == FindIndex(savedEntries, entry.date)
        newEntries == NewEntriesOnSave(savedEntries, existingIndex, updatedEntry)
        confirm == IF existingIndex > 0 THEN "accepted" ELSE "none"
    IN IF existingIndex > 0 /\ ~confirmOverwrite
       THEN SaveDeclined
       ELSE IF writeSucceeds
       THEN SaveCommitted(newEntries, confirm)
       ELSE SaveWriteFailed(newEntries, confirm)

\* saveEntry on a localStorage that accepts the write.
saveEntry(confirmOverwrite) == saveEntryOn(confirmOverwrite, TRUE)

\* Mutant of ExportDocument: only the latest entry is exported.
ExportDocumentLatestOnly(entries, t) ==
    [exportDate |-> t, totalEntries |-> Len(entries),
     entries |-> SubSeq(entries, Len(entries), Len(entries))]

\* dataToExport of exportData when the clock shows t.
ExportDocument(entries, t) ==
    [exportDate |-> t, totalEntries |-> Len(entries), entries |-> entries]

\* Mutant of exportData: the working entry is reset after the download.
exportDataResetsEntry ==
    /\ Len(savedEntries) > 0
    /\ entry' = initialEntry
    /\ last' = [NoDialog("exportData") EXCEPT
                  !.alert = "exported",
                  !.exported = << ExportDocument(savedEntries, now) >>]
    /\ UNCHANGED << now, initialEntry, newTodo, todoPriority, savedEntries,
                    showClearConfirm, isDarkMode, localStorage, pending >>

\* exportData: the Export button is disabled while the store is empty.
exportData ==
    /\ Len(savedEntries) > 0
    /\ last' = [NoDialog("exportData") EXCEPT
                  !.alert = "exported",
                  !.exported = << ExportDocument(savedEntries, now) >>]
    /\ UNCHANGED << now, initialEntry, entry, newTodo, todoPriority, savedEntries,
                    showClearConfirm, isDarkMode, localStorage, pending >>

\* The file exportData downloads, as the onload callback reads it back:
\* JSON.stringify(dataToExport, null, 2) parsed by JSON.parse gives an object
\* whose `entries` is the exported array (exportDate and totalEntries are
\* not read by the import).
FileOfDocument(document) == ObjectFile(ArrayField(document.entries))

\* The user keeps the file the browser has just downloaded; `exportedFrom`
\* remembers the collection it was exported from.
keepDownload ==
    /\ last.op = "exportData"
    /\ downloads # << [document |-> last.exported[1], exportedFrom |-> savedEntries] >>
    /\ downloads' = << [document |-> last.exported[1], exportedFrom |-> savedEntries] >>
    /\ UNCHANGED << now, initialEntry, entry, newTodo, todoPriority, savedEntries,
                    showClearConfirm, isDarkMode, localStorage, pending, last >>

\* The kept files, as files to select for import.
DownloadedFiles == {FileOfDocument(downloads[i].document) : i \in 1..Len(downloads)}

\* importData: a file was selected; a FileReader is created whose onload
\* callback closes over the savedEntries of the current render.  The model
\* follows one read at a time: a file is selected when none is being read.
importData(file) ==
    /\ pending = << >>
    /\ PassesValidation(file) =>
          Len(MergedEntries(savedEntries, file.entries.items)) <= MaxEntries
    /\ pending' = Append(pending, [savedEntries |-> savedEntries, file |-> file])
    /\ last' = Silent
    /\ UNCHANGED << now, initialEntry, entry, newTodo, todoPriority, savedEntries,
                    showClearConfirm, isDarkMode, localStorage >>

\* reader.onload of the k-th read in flight; writeSucceeds is whether
\* localStorage.setItem returns.  When it throws, setSavedEntries(mergedEntries)
\* has been called and takes effect, and the catch block shows the error.
onloadOn(k, writeSucceeds) ==
    LET read == pending[k]
        items == read.file.entries.items
        newEntries == FilterNewEntries(read.savedEntries, items)
        mergedEntries == MergedEntries(read.savedEntries, items)
    IN /\ pending' = SubSeq(pending, 1, k - 1) \o SubSeq(pending, k + 1, Len(pending))
       /\ IF PassesValidation(read.file) /\ writeSucceeds
          THEN /\ savedEntries' = mergedEntries
               /\ localStorage' = [localStorage EXCEPT !.journalEntries = JSONStringify(mergedEntries)]
               /\ last' = [NoDialog("onload") EXCEPT
                             !.alert = "imported",
                             !.imported = Len(newEntries),
                             !.skipped = Len(items) - Len(newEntries),
                             !.stale = (read.savedEntries # savedEntries)]
          ELSE IF PassesValidation(read.file)
          THEN /\ savedEntries' = mergedEntries
               /\ last' = [NoDialog("onload") EXCEPT
                             !.alert = "importError",
                             !.stale = (read.savedEntries # savedEntries)]
               /\ UNCHANGED localStorage
          ELSE /\ last' = [NoDialog("onload") EXCEPT
                             !.alert = "importError",
                             !.stale = (read.savedEntries # savedEntries)]
               /\ UNCHANGED << savedEntries, localStorage >>
       /\ UNCHANGED << now, initialEntry, entry, newTodo, todoPriority,
                       showClearConfirm, isDarkMode >>

\* reader.onload on a localStorage that accepts the write.
onload(k) == onloadOn(k, TRUE)

\* Mutant of requestClear: the button is not disabled on an empty store.
requestClearOnEmptyStore ==
    /\ ~showClearConfirm
    /\ showClearConfirm' = TRUE
    /\ last' = Silent
    /\ UNCHANGED << now, initialEntry, entry, newTodo, todoPriority, savedEntries,
                    isDarkMode, localStorage, pending >>

\* The Clear All Data button: shown while the prompt is closed, disabled
\* while the store is empty.
requestClear ==
    /\ ~showClearConfirm
    /\ Len(savedEntries) > 0
    /\ showClearConfirm' = TRUE
    /\ last' = Silent
    /\ UNCHANGED << now, initialEntry, entry, newTodo, todoPriority, savedEntries,
                    isDarkMode, localStorage, pending >>

\* The Cancel button of the prompt.
cancelClear ==
    /\ showClearConfirm
    /\ showClearConfirm' = FALSE
    /\ last' = Silent
    /\ UNCHANGED << now, initialEntry, entry, newTodo, todoPriority, savedEntries,
                    isDarkMode, localStorage, pending >>

\* Mutant of clearAllData: localStorage.removeItem is missing.
clearAllDataKeepsRecord ==
    /\ showClearConfirm
    /\ savedEntries' = << >>
    /\ entry' = initialEntry
    /\ showClearConfirm' = FALSE
    /\ last' = [NoDialog("clearAllData") EXCEPT !.alert = "cleared"]
    /\ UNCHANGED << now, initialEntry, newTodo, todoPriority, isDarkMode,
                    localStorage, pending >>

\* Mutant of clearAllData: setEntry(initialEntry) is missing.
clearAllDataKeepsEntry ==
    /\ showClearConfirm
    /\ localStorage' = [localStorage EXCEPT !.journalEntries = NoItem]
    /\ savedEntries' = << >>
    /\ showClearConfirm' = FALSE
    /\ last' = [NoDialog("clearAllData") EXCEPT !.alert = "cleared"]
    /\ UNCHANGED << now, initialEntry, entry, newTodo, todoPriority, isDarkMode,
                    pending >>

\* The "Yes, Clear" button of the prompt.
clearAllData ==
    /\ showClearConfirm
    /\ localStorage' = [localStorage EXCEPT !.journalEntries = NoItem]
    /\ savedEntries' = << >>
    /\ entry' = initialEntry
    /\ showClearConfirm' = FALSE
    /\ last' = [NoDialog("clearAllData") EXCEPT !.alert = "cleared"]
    /\ UNCHANGED << now, initialEntry, newTodo, todoPriority, isDarkMode, pending >>

\* ------------------------------------------------------- specifications

\* Text fields that receive input.
EditedFields == {"mainGoal"}

\* Stars that are clicked: the lowest and the highest.
ClickedStars == {1, 5}

\* What a handler run does to what lies outside the page: the download
\* folder is left alone, the counter of handler runs is kept or advanced.
Uncounted == UNCHANGED << downloads, steps >>

Counted ==
    /\ steps < MaxSteps
    /\ steps' = steps + 1
    /\ UNCHANGED downloads

\* The entry store: load, upsert of the blank form, export, import in two
\* steps, clear in two steps.
NextStore ==
    \/ Tick /\ Uncounted
    \/ Load /\ Uncounted
    \/ \E confirmOverwrite \in BOOLEAN : saveEntry(confirmOverwrite) /\ Uncounted
    \/ exportData /\ Uncounted
    \/ \E file \in Files : importData(file) /\ Uncounted
    \/ \E k \in 1..Len(pending) : onload(k) /\ Uncounted
    \/ requestClear /\ Uncounted
    \/ cancelClear /\ Uncounted
    \/ clearAllData /\ Uncounted

Spec == Init /\ [][NextStore]_vars

\* Something other than this page (the browser's "clear site data") removes
\* both keys.
clearSiteData ==
    /\ localStorage # [journalEntries |-> NoItem, journalTheme |-> NoItem]
    /\ localStorage' = [journalEntries |-> NoItem, journalTheme |-> NoItem]
    /\ UNCHANGED << now, initialEntry, entry, newTodo, todoPriority, savedEntries,
                    showClearConfirm, isDarkMode, pending, last >>

\* The theme over the days: the theme is toggled on the page that was
\* loaded on the first day, the page is loaded again on any day, entries
\* are saved and cleared, the site data is cleared.
NextTheme ==
    \/ Tick /\ Uncounted
    \/ Load /\ Uncounted
    \/ initialEntry.timestamp = 0 /\ toggleTheme /\ Uncounted
    \/ clearSiteData /\ Uncounted
    \/ \E confirmOverwrite \in BOOLEAN : saveEntry(confirmOverwrite) /\ Uncounted
    \/ requestClear /\ Uncounted
    \/ clearAllData /\ Uncounted

SpecTheme == Init /\ [][NextTheme]_vars

\* The ratings of one day: every star of two of the four ratings is
\* clicked, the entry is saved, the page is loaded again, the theme is
\* toggled, the store is exported and cleared.
RatedTypes == {"overall", "mood"}

NextRatings ==
    \/ Load /\ Uncounted
    \/ \E type \in RatedTypes, rating \in Stars :
            updateRatingWithin(type, rating, Cardinality(RatedTypes)) /\ Uncounted
    \/ \E confirmOverwrite \in BOOLEAN : saveEntry(confirmOverwrite) /\ Uncounted
    \/ toggleTheme /\ Uncounted
    \/ exportData /\ Uncounted
    \/ requestClear /\ Uncounted
    \/ cancelClear /\ Uncounted
    \/ clearAllData /\ Uncounted

SpecRatings == Init /\ [][NextRatings]_vars

\* Upserts only, from an empty store, over the days of the clock: the
\* page is reloaded, a text field is edited, the entry is saved.
NextUpsert ==
    \/ Tick /\ Uncounted
    \/ Load /\ Uncounted
    \/ \E field \in EditedFields, value \in TextValues : setText(field, value) /\ Uncounted
    \/ \E confirmOverwrite \in BOOLEAN : saveEntry(confirmOverwrite) /\ Uncounted

SpecUpsert == Init /\ [][NextUpsert]_vars

\* One day at the form, on a first or a returning visit: every handler of
\* the form and saveEntry.
InitForm == Init \/ InitReturning

NextForm ==
    \/ Load /\ Uncounted
    \/ \E text \in TodoTexts : setNewTodo(text) /\ Uncounted
    \/ \E priority \in Priorities : setTodoPriority(priority) /\ Uncounted
    \/ addTodo /\ Uncounted
    \/ \E index \in 1..Len(entry.todos) : toggleTodo(index) /\ Uncounted
    \/ \E index \in 1..Len(entry.todos) : removeTodo(index) /\ Uncounted
    \/ \E type \in RatingTypes, rating \in ClickedStars : updateRating(type, rating) /\ Uncounted
    \/ \E field \in EditedFields, value \in TextValues : setText(field, value) /\ Uncounted
    \/ \E confirmOverwrite \in BOOLEAN : saveEntry(confirmOverwrite) /\ Uncounted

SpecForm == InitForm /\ [][NextForm]_vars

\* The todo list of the working entry, on a first or a returning visit:
\* the todo text is typed, the priority selected, todos are added, toggled
\* and removed.
NextTodos ==
    \/ \E text \in TodoTexts : setNewTodoWithin(text, MaxList) /\ Uncounted
    \/ \E priority \in Priorities : setTodoPriorityWithin(priority, MaxList) /\ Uncounted
    \/ addTodo /\ Uncounted
    \/ \E index \in 1..Len(entry.todos) : toggleTodo(index) /\ Uncounted
    \/ \E index \in 1..Len(entry.todos) : removeTodo(index) /\ Uncounted

SpecTodos == InitForm /\ [][NextTodos]_vars

\* Every handler interleaved with every other, MaxSteps handler runs deep.
NextAll ==
    \/ Tick /\ Counted
    \/ Load /\ Counted
    \/ toggleTheme /\ Counted
    \/ \E text \in TodoTexts : setNewTodo(text) /\ Counted
    \/ \E priority \in Priorities : setTodoPriority(priority) /\ Counted
    \/ addTodo /\ Counted
    \/ \E index \in 1..Len(entry.todos) : toggleTodo(index) /\ Counted
    \/ \E index \in 1..Len(entry.todos) : removeTodo(index) /\ Counted
    \/ \E type \in RatingTypes, rating \in ClickedStars : updateRating(type, rating) /\ Counted
    \/ \E field \in EditedFields, value \in TextValues : setText(field, value) /\ Counted
    \/ \E confirmOverwrite \in BOOLEAN : saveEntry(confirmOverwrite) /\ Counted
    \/ exportData /\ Counted
    \/ \E file \in Files : importData(file) /\ Counted
    \/ \E k \in 1..Len(pending) : onload(k) /\ Counted
    \/ requestClear /\ Counted
    \/ cancelClear /\ Counted
    \/ clearAllData /\ Counted

SpecAll == Init /\ [][NextAll]_vars

\* Files holding one entry.
SingleEntryFiles == {ObjectFile(ArrayField(<< e >>)) : e \in PayloadEntries}

\* One day of saving, importing single entries, exporting, keeping the
\* exported file, clearing and importing the kept file again.
NextRoundTrip ==
    \/ \E confirmOverwrite \in BOOLEAN : saveEntry(confirmOverwrite) /\ Uncounted
    \/ exportData /\ Uncounted
    \/ keepDownload /\ UNCHANGED steps
    \/ \E file \in SingleEntryFiles \cup DownloadedFiles : importData(file) /\ Uncounted
    \/ \E k \in 1..Len(pending) : onload(k) /\ Uncounted
    \/ requestClear /\ Uncounted
    \/ clearAllData /\ Uncounted

SpecRoundTrip == Init /\ [][NextRoundTrip]_vars

\* One session: the page is not loaded again.  The form is edited and
\* saved, single entries are imported, the store is cleared, the clock
\* advances; the committed saves of the session are counted.
CountedWhenSaved ==
    /\ IF last'.alert = "saved"
       THEN steps < MaxSteps /\ steps' = steps + 1
       ELSE steps' = steps
    /\ UNCHANGED downloads

NextSession ==
    \/ Tick /\ Uncounted
    \/ \E field \in EditedFields, value \in TextValues : setText(field, value) /\ Uncounted
    \/ \E confirmOverwrite \in BOOLEAN : saveEntry(confirmOverwrite) /\ CountedWhenSaved
    \/ \E file \in SingleEntryFiles : importData(file) /\ Uncounted
    \/ \E k \in 1..Len(pending) : onload(k) /\ Uncounted
    \/ requestClear /\ Uncounted
    \/ cancelClear /\ Uncounted
    \/ clearAllData /\ Uncounted

SpecSession == Init /\ [][NextSession]_vars

\* Imports on a localStorage that may refuse the write, on stores built by
\* saves and earlier imports.
NextImportQuota ==
    \/ \E confirmOverwrite \in BOOLEAN : saveEntry(confirmOverwrite) /\ Uncounted
    \/ \E file \in Files : importData(file) /\ Uncounted
    \/ \E k \in 1..Len(pending), writeSucceeds \in BOOLEAN :
          onloadOn(k, writeSucceeds) /\ Uncounted
    \/ requestClear /\ Uncounted
    \/ clearAllData /\ Uncounted

SpecImportQuota == Init /\ [][NextImportQuota]_vars

\* Page loads over a durable record that may have been damaged: the clock,
\* page loads, theme changes, saves and clears of a mounted page, and the
\* damage itself.
NextLoad ==
    \/ Tick /\ Uncounted
    \/ Load /\ Uncounted
    \/ corruptRecord /\ Uncounted
    \/ Mounted /\ toggleTheme /\ Uncounted
    \/ \E confirmOverwrite \in BOOLEAN : Mounted /\ saveEntry(confirmOverwrite) /\ Uncounted
    \/ Mounted /\ requestClear /\ Uncounted
    \/ Mounted /\ clearAllData /\ Uncounted

SpecLoad == Init /\ [][NextLoad]_vars

\* Saves on a localStorage that may refuse the write.
NextQuota ==
    \/ Tick /\ Uncounted
    \/ Load /\ Uncounted
    \/ \E field \in EditedFields, value \in TextValues : setText(field, value) /\ Uncounted
    \/ \E confirmOverwrite, writeSucceeds \in BOOLEAN :
            saveEntryOn(confirmOverwrite, writeSucceeds) /\ Uncounted

SpecQuota == Init /\ [][NextQuota]_vars

\* Imports of entries that lack fields: the handlers run while the page is
\* rendered, the page can be loaded again at any time.
Rendered == Mounted /\ ~RenderThrows(savedEntries, entry)

NextRender ==
    \/ Load /\ Uncounted
    \/ \E confirmOverwrite \in BOOLEAN : Rendered /\ saveEntry(confirmOverwrite) /\ Uncounted
    \/ \E file \in SparseFiles \cup SingleEntryFiles : Rendered /\ importData(file) /\ Uncounted
    \/ \E k \in 1..Len(pending) : onload(k) /\ Uncounted
    \/ Rendered /\ exportData /\ Uncounted
    \/ Rendered /\ requestClear /\ Uncounted
    \/ Rendered /\ clearAllData /\ Uncounted

SpecRender == Init /\ [][NextRender]_vars

\* The task statistics of the working entry.  The todo lists are the short
\* ones, and the lists of up to MaxTodos todos of one priority whose
\* completed todos come first; the todo after the completed ones, or the
\* last of them, is toggled, and the last todo is removed.
Todo(completed, priority) == [text |-> "a", completed |-> completed, priority |-> priority]

ShortTodoLists ==
    LET todos == {Todo(completed, priority) : completed \in BOOLEAN, priority \in Priorities}
    IN {<< >>} \cup {<< t >> : t \in todos} \cup {<< t, u >> : t \in todos, u \in todos}

LongTodoLists ==
    {[i \in 1..n |-> Todo(i <= c, priority)] :
        n \in 0..MaxTodos, c \in 0..MaxTodos, priority \in Priorities}

InitStats ==
    /\ \E todos \in ShortTodoLists \cup LongTodoLists :
          entry = [MakeInitialEntry(0) EXCEPT !.todos = todos]
    /\ now = 0
    /\ initialEntry = MakeInitialEntry(0)
    /\ newTodo = ""
    /\ todoPriority = "medium"
    /\ savedEntries = << >>
    /\ showClearConfirm = FALSE
    /\ isDarkMode = TRUE
    /\ localStorage = [journalEntries |-> NoItem, journalTheme |-> JSONStringify("dark")]
    /\ pending = << >>
    /\ last = Silent
    /\ downloads = << >>
    /\ steps = 0

\* The todos at the end of the completed ones.
ToggledTodos(todos) ==
    {i \in 1..Len(todos) :
        /\ \A j \in 1..(i - 1) : todos[j].completed
        /\ \A j \in (i + 1)..Len(todos) : ~todos[j].completed}

NextStats ==
    \/ \E index \in ToggledTodos(entry.todos) : toggleTodo(index) /\ Uncounted
    \/ \E index \in {Len(entry.todos)} \ {0} : removeTodo(index) /\ Uncounted

SpecStats == InitStats /\ [][NextStats]_vars

\* The rating averages over a store of up to MaxRated entries of the days
\* before, saved with one set of ratings up to some day and with another
\* afterwards, and the working entry, on which one rating is clicked.
SavedRatings ==
    { [overall |-> 0, energy |-> 0, productivity |-> 0, mood |-> 0],
      [overall |-> 3, energy |-> 2, productivity |-> 0, mood |-> 4],
      [overall |-> 4, energy |-> 4, productivity |-> 4, mood |-> 4],
      [overall |-> 5, energy |-> 5, productivity |-> 5, mood |-> 5] }

RatedStores ==
    {[i \in 1..n |->
        [MakeInitialEntry(i - n - 1) EXCEPT !.ratings = IF i <= k THEN first ELSE second]] :
        n \in 0..MaxRated, k \in 0..MaxRated, first \in SavedRatings, second \in SavedRatings}

InitAverages ==
    /\ savedEntries \in RatedStores
    /\ localStorage = [journalEntries |-> IF savedEntries = << >> THEN NoItem
                                          ELSE JSONStringify(savedEntries),
                       journalTheme   |-> JSONStringify("dark")]
    /\ now = 0
    /\ initialEntry = MakeInitialEntry(0)
    /\ entry = MakeInitialEntry(0)
    /\ newTodo = ""
    /\ todoPriority = "medium"
    /\ showClearConfirm = FALSE
    /\ isDarkMode = TRUE
    /\ pending = << >>
    /\ last = Silent
    /\ downloads = << >>
    /\ steps = 0

NextAverages ==
    \/ \E type \in RatingTypes, rating \in ClickedStars : updateRating(type, rating) /\ Uncounted

SpecAverages == InitAverages /\ [][NextAverages]_vars

\* The insights over a store of up to MaxStreak entries of the days before,
\* saved with one content up to some day and with another afterwards; the
\* working entry is saved, the store is cleared.
InsightRatings ==
    { [overall |-> 0, energy |-> 0, productivity |-> 0, mood |-> 0],
      [overall |-> 2, energy |-> 2, productivity |-> 4, mood |-> 2],
      [overall |-> 3, energy |-> 3, productivity |-> 3, mood |-> 3],
      [overall |-> 5, energy |-> 5, productivity |-> 5, mood |-> 5] }

InsightTodos ==
    { << >>,
      << Todo(TRUE, "medium") >>,
      << Todo(TRUE, "medium"), Todo(FALSE, "medium") >>,
      << Todo(TRUE, "medium"), Todo(TRUE, "medium"), Todo(TRUE, "medium"),
         Todo(TRUE, "medium"), Todo(FALSE, "medium") >> }

InsightContents == {[ratings |-> r, todos |-> t] : r \in InsightRatings, t \in InsightTodos}

InsightStores ==
    {[i \in 1..n |->
        LET content == IF i <= k THEN first ELSE second
        IN [MakeInitialEntry(i - n - 1) EXCEPT
              !.ratings = content.ratings, !.todos = content.todos]] :
        n \in 0..MaxStreak, k \in 0..MaxStreak,
        first \in InsightContents, second \in InsightContents}

InitInsights ==
    /\ savedEntries \in InsightStores
    /\ localStorage = [journalEntries |-> IF savedEntries = << >> THEN NoItem
                                          ELSE JSONStringify(savedEntries),
                       journalTheme   |-> JSONStringify("dark")]
    /\ now = 0
    /\ initialEntry = MakeInitialEntry(0)
    /\ entry = MakeInitialEntry(0)
    /\ newTodo = ""
    /\ todoPriority = "medium"
    /\ showClearConfirm = FALSE
    /\ isDarkMode = TRUE
    /\ pending = << >>
    /\ last = Silent
    /\ downloads = << >>
    /\ steps = 0

NextInsights ==
    \/ \E confirmOverwrite \in BOOLEAN : saveEntry(confirmOverwrite) /\ Uncounted
    \/ requestClear /\ Uncounted
    \/ cancelClear /\ Uncounted
    \/ clearAllData /\ Uncounted

SpecInsights == InitInsights /\ [][NextInsights]_vars

\* Imports into stores of every order: the page shows a collection of
\* entries that differ in date and contents, in any order and with repeated
\* dates, and files of such entries are imported.
SortGoals == {"p", "q"}

SortEntries == {PayloadEntry(d, g) : d \in PayloadDates, g \in SortGoals}

SortStores == UNION {[1..n -> SortEntries] : n \in 0..MaxEntries}

SortFiles ==
    {ObjectFile(ArrayField(items)) :
        items \in UNION {[1..n -> SortEntries] : n \in 0..MaxPayload}}

InitSort ==
    /\ now = 0
    /\ initialEntry = MakeInitialEntry(0)
    /\ entry = MakeInitialEntry(0)
    /\ newTodo = ""
    /\ todoPriority = "medium"
    /\ savedEntries \in SortStores
    /\ showClearConfirm = FALSE
    /\ isDarkMode = TRUE
    /\ localStorage = [journalEntries |-> IF savedEntries = << >> THEN NoItem
                                          ELSE JSONStringify(savedEntries),
                       journalTheme |-> JSONStringify("dark")]
    /\ pending = << >>
    /\ last = Silent
    /\ downloads = << >>
    /\ steps = 0

NextSort ==
    \/ \E file \in SortFiles : importData(file) /\ Uncounted
    \/ \E k \in 1..Len(pending) : onload(k) /\ Uncounted

SpecSort == InitSort /\ [][NextSort]_vars

\* ---------------------------------------------------------------- claims

\* No two positions of a collection hold the same date.
NoDuplicateDates(entries) ==
    \A i, j \in 1..Len(entries) : i # j => entries[i].date # entries[j].date

\* The entries of a collection that carry date d, in order.
EntriesOn(entries, d) ==
    LET OnDate(e) == e.date = d
    IN SelectSeq(entries, OnDate)

\* The blank entry: no todos, all ratings 0, all text fields empty.
IsBlank(e) ==
    /\ e.todos = << >>
    /\ \A t \in RatingTypes : e.ratings[t] = 0
    /\ \A f \in TextFieldSet : e[f] = ""

\* Two entries agree on everything but the timestamp.
SameButTimestamp(a, b) == a = [b EXCEPT !.timestamp = a.timestamp]

\* The entries held by the durable record (none when the key is absent).
StoredEntries ==
    IF localStorage.journalEntries.present
    THEN JSONParse(localStorage.journalEntries)
    ELSE << >>

\* C1: from an empty store, whatever sequence of upserts (new date,
\* overwrite confirmed, overwrite declined) is performed, the saved-entries
\* collection never holds two entries with the same date.
C1_UpsertNoDuplicateDates == NoDuplicateDates(savedEntries)

\* C1 witness: a confirmed overwrite has just run on a store of two entries.
C1_Witness ==
    /\ last.op = "saveEntry"
    /\ last.confirm = "accepted"
    /\ Len(savedEntries) = 2

\* C2: in every state reachable by Load, Upsert, Import and ClearAll there
\* is at most one entry per date, in memory and in the durable record.
C2_StoreNoDuplicateDates ==
    /\ NoDuplicateDates(savedEntries)
    /\ NoDuplicateDates(StoredEntries)

\* C3: an import that completes on the store it was started on never
\* overwrites: for every date already stored the entries of that date are
\* the same afterwards, and the dates afterwards are exactly the stored
\* dates united with the payload's dates.
C3_ImportNeverOverwrites ==
    [][\A k \in 1..Len(pending) :
          ( /\ onload(k)
            /\ last'.alert = "imported"
            /\ pending[k].savedEntries = savedEntries )
          => /\ \A d \in ExistingDates(savedEntries) :
                    EntriesOn(savedEntries', d) = EntriesOn(savedEntries, d)
             /\ ExistingDates(savedEntries') =
                    ExistingDates(savedEntries)
                        \cup ExistingDates(pending[k].file.entries.items)]_vars

\* C3 witness: an import has completed on the store it was started on,
\* adding one payload entry and dropping one whose date was already stored.
C3_Witness ==
    /\ last.op = "onload"
    /\ last.alert = "imported"
    /\ ~last.stale
    /\ last.imported = 1
    /\ last.skipped = 1

\* C4: a date that is in the store stays in the store (memory and durable
\* record) across every upsert, file selection and read completion.
C4_EntriesLeaveOnlyByClear ==
    [][ ( \/ \E confirmOverwrite \in BOOLEAN : saveEntry(confirmOverwrite)
          \/ \E file \in Files : importData(file)
          \/ \E k \in 1..Len(pending) : onload(k) )
        => /\ ExistingDates(savedEntries) \subseteq ExistingDates(savedEntries')
           /\ ExistingDates(StoredEntries) \subseteq ExistingDates(StoredEntries') ]_vars

\* C5: the durable record under journalEntries holds exactly the in-memory
\* collection, the absent key standing for the empty collection.
C5_DurableMirrorsMemory ==
    /\ localStorage.journalEntries.present
          => JSONParse(localStorage.journalEntries) = savedEntries
    /\ ~localStorage.journalEntries.present => savedEntries = << >>

\* C5 witness: an import has added entries while the theme was light.
C5_Witness ==
    /\ last.op = "onload"
    /\ last.alert = "imported"
    /\ last.imported > 0
    /\ ~isDarkMode
    /\ localStorage.journalEntries.present

\* C6: a confirmed overwrite on a store with unique dates keeps the length,
\* leaves exactly one entry for the date, at the position of the replaced
\* entry and equal to the working entry but for the timestamp, and leaves
\* every other position unchanged.
C6_OverwriteInPlace ==
    [][ ( /\ saveEntry(TRUE)
          /\ FindIndex(savedEntries, entry.date) > 0
          /\ NoDuplicateDates(savedEntries) )
        => LET i == FindIndex(savedEntries, entry.date)
           IN /\ Len(savedEntries') = Len(savedEntries)
              /\ Len(EntriesOn(savedEntries', entry.date)) = 1
              /\ savedEntries'[i].date = entry.date
              /\ SameButTimestamp(savedEntries'[i], entry)
              /\ \A j \in 1..Len(savedEntries) :
                    j # i => savedEntries'[j] = savedEntries[j] ]_vars

\* C6 witness: a confirmed overwrite has replaced the first of two imported
\* entries with the working entry, on a later day than the page was loaded.
C6_Witness ==
    /\ last.op = "saveEntry"
    /\ last.confirm = "accepted"
    /\ Len(savedEntries) = 2
    /\ savedEntries[1].date = initialEntry.date
    /\ savedEntries[1].mainGoal = ""
    /\ savedEntries[1].timestamp > initialEntry.timestamp
    /\ savedEntries[2].mainGoal \in PayloadGoals

\* C7: a declined overwrite changes neither the saved entries, nor the
\* durable record, nor the working entry, and shows no success message.
C7_DeclinedIsNoOp ==
    [][ ( /\ saveEntry(FALSE)
          /\ FindIndex(savedEntries, entry.date) > 0 )
        => /\ savedEntries' = savedEntries
           /\ localStorage' = localStorage
           /\ entry' = entry
           /\ newTodo' = newTodo
           /\ last'.alert = "none" ]_vars

\* C7 witness: an overwrite has just been declined with the form filled in.
C7_Witness ==
    /\ last.op = "saveEntry"
    /\ last.confirm = "declined"
    /\ ~IsBlank(entry)

\* C8: an upsert on a date that is not stored appends the working entry
\* (timestamp refreshed) after the unchanged earlier entries, rewrites the
\* durable record to the whole new collection and blanks the working entry.
C8_NewDateAppends ==
    [][ ( /\ \E confirmOverwrite \in BOOLEAN : saveEntry(confirmOverwrite)
          /\ entry.date \notin ExistingDates(savedEntries) )
        => /\ Len(savedEntries') = Len(savedEntries) + 1
           /\ SubSeq(savedEntries', 1, Len(savedEntries)) = savedEntries
           /\ SameButTimestamp(savedEntries'[Len(savedEntries')], entry)
           /\ savedEntries'[Len(savedEntries')].timestamp = now
           /\ localStorage'.journalEntries.present
           /\ JSONParse(localStorage'.journalEntries) = savedEntries'
           /\ IsBlank(entry') ]_vars

\* C8 witness: a filled-in entry has just been appended behind another one.
C8_Witness ==
    /\ last.op = "saveEntry"
    /\ last.confirm = "none"
    /\ last.alert = "saved"
    /\ Len(savedEntries) = 2
    /\ ~IsBlank(savedEntries[2])
    /\ IsBlank(entry)

\* C9: an import of a file that is not JSON, or whose JSON has no
\* array-valued entries field, shows the rejection message and leaves the
\* in-memory collection and the durable record as they were.
C9_RejectedImport ==
    [][\A k \in 1..Len(pending) :
          ( /\ onload(k)
            /\ \/ ~pending[k].file.json
               \/ pending[k].file.isNull
               \/ pending[k].file.entries.type # "array" )
          => /\ last'.alert = "importError"
             /\ last'.imported = 0
             /\ savedEntries' = savedEntries
             /\ localStorage' = localStorage]_vars

\* C9 witness: an import has just been rejected on a non-empty store.
C9_Witness ==
    /\ last.op = "onload"
    /\ last.alert = "importError"
    /\ savedEntries # << >>

\* C10: a successful import reports as imported the number of payload
\* entries whose date is not in the store before the import and as skipped
\* the rest, and the store grows by exactly the imported entries.
C10_ImportCounts ==
    [][\A k \in 1..Len(pending) :
          ( /\ onload(k)
            /\ last'.alert = "imported" )
          => LET items == pending[k].file.entries.items
                 fresh == {i \in 1..Len(items) :
                              items[i].date \notin ExistingDates(savedEntries)}
             IN /\ last'.imported = Cardinality(fresh)
                /\ last'.skipped = Len(items) - last'.imported
                /\ last'.imported + last'.skipped = Len(items)
                /\ Len(savedEntries') = Len(savedEntries) + last'.imported]_vars

\* The entries of a collection, as a set.
EntrySet(entries) == {entries[i] : i \in 1..Len(entries)}

\* C11: importing the document exported from a store of N entries with
\* unique dates into an empty store yields exactly those N entries, each
\* with identical contents, in memory and in the durable record.
C11_ExportImportRoundTrip ==
    [][\A k \in 1..Len(pending), i \in 1..Len(downloads) :
          ( /\ onload(k)
            /\ pending[k].file = FileOfDocument(downloads[i].document)
            /\ pending[k].savedEntries = << >>
            /\ savedEntries = << >>
            /\ NoDuplicateDates(downloads[i].exportedFrom) )
          => /\ last'.alert = "imported"
             /\ Len(savedEntries') = Len(downloads[i].exportedFrom)
             /\ EntrySet(savedEntries') = EntrySet(downloads[i].exportedFrom)
             /\ localStorage'.journalEntries = JSONStringify(savedEntries')]_vars

\* C11 witness: a store of two entries that was not in date order has been
\* exported, cleared and imported back from the kept file.
C11_Witness ==
    /\ last.op = "onload"
    /\ last.imported = 2
    /\ Len(savedEntries) = 2
    /\ Len(downloads) = 1
    /\ Len(downloads[1].exportedFrom) = 2
    /\ downloads[1].exportedFrom[1].date > downloads[1].exportedFrom[2].date
    /\ EntrySet(savedEntries) = EntrySet(downloads[1].exportedFrom)

\* The dates of a collection never decrease from one position to the next.
AscendingDates(entries) ==
    \A i, j \in 1..Len(entries) : i < j => entries[i].date <= entries[j].date

\* The payload entries of date d that an import into `entries` adds.
AddedOn(entries, items, d) ==
    IF d \in ExistingDates(entries) THEN << >> ELSE EntriesOn(items, d)

\* C12: after every successful import the collection, in memory and in the
\* durable record, is in ascending date order; the entries of one date
\* keep the order they had (stored entries first, then the added ones, each
\* group in its own order), as a stable sort dictates.
C12_ImportSortsStably ==
    [][\A k \in 1..Len(pending) :
          ( /\ onload(k)
            /\ last'.alert = "imported" )
          => /\ AscendingDates(savedEntries')
             /\ localStorage'.journalEntries = JSONStringify(savedEntries')
             /\ pending[k].savedEntries = savedEntries =>
                   \A d \in PayloadDates :
                       EntriesOn(savedEntries', d) =
                           EntriesOn(savedEntries, d)
                               \o AddedOn(savedEntries, pending[k].file.entries.items, d)]_vars

\* C12 witness: an import has put an entry in front of a stored entry of a
\* later date.
C12_Witness ==
    /\ last.op = "onload"
    /\ last.alert = "imported"
    /\ last.imported = 1
    /\ last.skipped = 1
    /\ ~last.stale
    /\ Len(savedEntries) = 2
    /\ savedEntries[1].date < savedEntries[2].date
    /\ savedEntries[1].mainGoal # savedEntries[2].mainGoal

\* C13: export changes neither the saved entries, nor the durable record,
\* nor the working entry; the document's totalEntries is the length of its
\* entries field, which is the whole current collection.
C13_ExportMutatesNothing ==
    [][ exportData
        => /\ savedEntries' = savedEntries
           /\ localStorage' = localStorage
           /\ entry' = entry
           /\ newTodo' = newTodo
           /\ Len(last'.exported) = 1
           /\ last'.exported[1].totalEntries = Len(last'.exported[1].entries)
           /\ last'.exported[1].entries = savedEntries ]_vars

\* C13 witness: an export has run while the form was filled in.
C13_Witness ==
    /\ last.op = "exportData"
    /\ last.alert = "exported"
    /\ ~IsBlank(entry)
    /\ last.exported[1].totalEntries = Len(savedEntries)

\* C14: ClearAll leaves the in-memory collection empty, the durable entries
\* record erased, the working entry blank and the confirmation prompt
\* closed, and does not touch the theme, in memory or persisted.
C14_ClearAllEmptiesStore ==
    [][ clearAllData
        => /\ savedEntries' = << >>
           /\ ~localStorage'.journalEntries.present
           /\ entry' = initialEntry
           /\ IsBlank(entry')
           /\ ~showClearConfirm'
           /\ localStorage'.journalTheme = localStorage.journalTheme
           /\ isDarkMode' = isDarkMode ]_vars

\* C14 witness: the store has been cleared while the light theme was
\* persisted.
C14_Witness ==
    /\ last.op = "clearAllData"
    /\ last.alert = "cleared"
    /\ ~isDarkMode
    /\ localStorage.journalTheme = JSONStringify("light")
    /\ savedEntries = << >>

\* C15: ClearAll is irreversible: when a read completes on a store that is
\* empty with its durable record erased, the entries in the store afterwards
\* are entries of the payload; an import whose file was selected before the
\* clear does not bring cleared entries back.
C15_ClearAllIrreversible ==
    [][\A k \in 1..Len(pending) :
          ( /\ onload(k)
            /\ savedEntries = << >>
            /\ ~localStorage.journalEntries.present )
          => /\ EntrySet(savedEntries') \subseteq EntrySet(pending[k].file.entries.items)
             /\ EntrySet(StoredEntries') \subseteq EntrySet(pending[k].file.entries.items)]_vars

\* C16: Load fails soft: with the journalEntries key absent, or present
\* with text that does not parse, the page starts with an empty store and
\* no error is raised.
C16_LoadFailsSoft ==
    [][ ( /\ Load
          /\ \/ ~localStorage.journalEntries.present
             \/ ~localStorage.journalEntries.json )
        => /\ savedEntries' = << >>
           /\ ~last'.threw ]_vars

\* C17: when the durable write of an upsert fails, the failure is caught
\* at the write: no exception leaves saveEntry and the user is shown a
\* warning.
C17_WriteFailureCaught ==
    [][\A confirmOverwrite \in BOOLEAN :
          ( /\ saveEntryOn(confirmOverwrite, FALSE)
            /\ FindIndex(savedEntries, entry.date) > 0 => confirmOverwrite )
          => /\ ~last'.threw
             /\ last'.alert # "none" ]_vars

\* C18: no input is fatal: whatever has been imported, the statistics over
\* the store (rating averages, trends, insights) are computed without
\* raising, also after the page is loaded again.
C18_NoInputIsFatal == ~RenderThrows(savedEntries, entry)

\* round(100 * part / whole) for whole > 0, a half rounded up as Math.round does.
RoundedPercent(part, whole) == (200 * part + whole) \div (2 * whole)

\* C19: the task statistics of every todo list: total is its length,
\* completed, highPriority and completedHigh are the counts of completed,
\* of high priority and of completed high priority todos; each rate is
\* round(100 * part / whole), 0 when the whole is 0, an integer in 0..100;
\* one completed high priority todo gives 1, 1, 100, 1, 1, 100.
C19_TaskStats ==
    LET todos == entry.todos
        stats == getProductivityStats(entry)
        done  == {i \in 1..Len(todos) : todos[i].completed}
        high  == {i \in 1..Len(todos) : todos[i].priority = "high"}
    IN /\ stats.total = Len(todos)
       /\ stats.completed = Cardinality(done)
       /\ stats.highPriority = Cardinality(high)
       /\ stats.completedHigh = Cardinality(done \cap high)
       /\ stats.completionRate =
             IF todos = << >> THEN 0 ELSE RoundedPercent(Cardinality(done), Len(todos))
       /\ stats.highPriorityRate =
             IF high = {} THEN 0 ELSE RoundedPercent(Cardinality(done \cap high), Cardinality(high))
       /\ stats.completionRate \in 0..100
       /\ stats.highPriorityRate \in 0..100
       /\ todos = << Todo(TRUE, "high") >> =>
             stats = [total |-> 1, completed |-> 1, completionRate |-> 100,
                      highPriority |-> 1, completedHigh |-> 1, highPriorityRate |-> 100]

\* sum / size rounded to one decimal, in tenths, a half rounded up as
\* toFixed does.
RoundedTenths(sum, size) == (20 * sum + size) \div (2 * size)

\* C20: the rating averages are taken over the saved entries and the
\* working entry that have one of their four ratings non-zero; each is the
\* sum of the dimension over them divided by their number, rounded to one
\* decimal; nothing is produced, and nothing divided, when there are none.
C20_RatingAverages ==
    LET allEntries == Append(savedEntries, entry)
        population == {i \in 1..Len(allEntries) :
                          \E type \in RatingTypes : allEntries[i].ratings[type] # 0}
        total(type) == Sum([i \in 1..Len(allEntries) |->
                               IF i \in population THEN allEntries[i].ratings[type] ELSE 0])
        averages   == RatingAverages(savedEntries, entry)
    IN IF population = {}
       THEN averages = NoAverages
       ELSE /\ averages.shown
            /\ \A type \in RatingTypes :
                  averages[type] = RoundedTenths(total(type), Cardinality(population))

\* C21: in every store reached by upserts, imports and clears, the entries
\* the trend lists and the insights use (savedEntries.slice(-7)) are the
\* entries with the latest dates, in ascending date order.
C21_TrendIsLatestInOrder ==
    LET recentEntries == RecentEntries(savedEntries)
        older == SubSeq(savedEntries, 1, Len(savedEntries) - Len(recentEntries))
    IN /\ Len(recentEntries) =
             (IF Len(savedEntries) < TrendWindow THEN Len(savedEntries) ELSE TrendWindow)
       /\ AscendingDates(recentEntries)
       /\ \A i \in 1..Len(older), j \in 1..Len(recentEntries) :
             older[i].date <= recentEntries[j].date

\* The messages in the order the card lists them.
InsightOrder ==
    << "greatSpirits", "selfCare", "excellentCompletion", "breakDownTasks",
       "greatMomentum", "streak" >>

\* C22: over a non-empty store the insights are never empty, at most four,
\* in the order mood, completion, productivity, streak; the positive mood
\* message iff the window's average mood >= 4, the self-care message iff it
\* is <= 2; the praise iff the window's completion rate (completed / all
\* todos, 0 without todos) >= 80, the decompose message iff it is <= 50;
\* the momentum message iff the average productivity >= 4; the streak
\* message iff there are >= 7 saved entries; the default message iff none
\* of the others is present.
C22_Insights ==
    Len(savedEntries) > 0 =>
        LET window    == RecentEntries(savedEntries)
            size      == Len(window)
            moods     == Sum([i \in 1..size |-> window[i].ratings.mood])
            work      == Sum([i \in 1..size |-> window[i].ratings.productivity])
            tasks     == Sum([i \in 1..size |-> Len(window[i].todos)])
            done      == Sum([i \in 1..size |->
                                Cardinality({j \in 1..Len(window[i].todos) :
                                                window[i].todos[j].completed})])
            insights  == Insights(savedEntries)
            shown     == {insights[i] : i \in 1..Len(insights)}
            others    == {InsightOrder[i] : i \in 1..Len(InsightOrder)}
        IN /\ Len(insights) \in 1..4
           /\ "greatSpirits" \in shown <=> moods >= 4 * size
           /\ "selfCare" \in shown <=> moods <= 2 * size
           /\ "excellentCompletion" \in shown <=> (tasks > 0 /\ 100 * done >= 80 * tasks)
           /\ "breakDownTasks" \in shown <=> (tasks = 0 \/ 100 * done <= 50 * tasks)
           /\ "greatMomentum" \in shown <=> work >= 4 * size
           /\ "streak" \in shown <=> Len(savedEntries) >= 7
           /\ "keepJournaling" \in shown <=> shown \cap others = {}
           /\ ~("greatSpirits" \in shown /\ "selfCare" \in shown)
           /\ ~("excellentCompletion" \in shown /\ "breakDownTasks" \in shown)
           /\ "keepJournaling" \notin shown =>
                 insights = SelectSeq(InsightOrder, LAMBDA m : m \in shown)
           /\ "keepJournaling" \in shown => insights = << "keepJournaling" >>

\* C22 witness: a store of more than seven entries, the oldest of them
\* unrated and outside the window, shows all four messages.
C22_Witness ==
    /\ Len(savedEntries) > TrendWindow
    /\ savedEntries[1].ratings.mood = 0
    /\ Insights(savedEntries) =
          << "greatSpirits", "excellentCompletion", "greatMomentum", "streak" >>

\* C23: after every successful upsert the working entry is blank and
\* carries the calendar date of the moment of the save, also when the day
\* has advanced since the page was loaded.
C23_SaveResetsToToday ==
    [][\A confirmOverwrite \in BOOLEAN :
          (saveEntry(confirmOverwrite) /\ last'.alert = "saved")
          => /\ IsBlank(entry')
             /\ entry'.date = DateOf(now)]_vars

\* The theme the durable record holds.
StoredTheme == localStorage.journalTheme

\* C24: a page load sets the theme to the persisted one, to dark when the
\* key is absent; after a page load and after a toggle the persisted theme
\* is the theme in memory; and a page load over the theme the page has
\* persisted leaves the theme as it was before.
C24_ThemeSurvivesReload ==
    [][ /\ Load =>
             /\ StoredTheme.present => isDarkMode' = (StoredTheme.value = "dark")
             /\ ~StoredTheme.present => isDarkMode'
             /\ StoredTheme = JSONStringify(ThemeName(isDarkMode)) => isDarkMode' = isDarkMode
        /\ (Load \/ toggleTheme) => StoredTheme' = JSONStringify(ThemeName(isDarkMode')) ]_vars

\* C24 witness: the page was loaded again on the second day and shows the
\* light theme chosen on the first day, which the durable record holds.
C24_Witness ==
    /\ initialEntry.timestamp = 1
    /\ ~isDarkMode
    /\ StoredTheme = JSONStringify("light")

\* The working entry is reset: a save went through, the store was cleared,
\* or the page was loaded again.
EntryReset ==
    \/ \E confirmOverwrite \in BOOLEAN : saveEntry(confirmOverwrite) /\ last'.alert = "saved"
    \/ clearAllData
    \/ Load

\* C25: every rating of the working entry and of every entry an upsert has
\* put into the store is an integer in 0..5; only the reset of the working
\* entry takes a rating that is set back to 0.
C25_RatingsInRange ==
    [][ /\ \A type \in RatingTypes : entry'.ratings[type] \in 0..5
        /\ \A i \in 1..Len(savedEntries'), type \in RatingTypes :
              savedEntries'[i].ratings[type] \in 0..5
        /\ ~EntryReset =>
              \A type \in RatingTypes :
                 entry.ratings[type] # 0 => entry'.ratings[type] # 0 ]_vars

\* C25 witness: an entry with two ratings between the lowest and the
\* highest star was saved, and the form has been rated again.
C25_Witness ==
    /\ Len(savedEntries) = 1
    /\ savedEntries[1].ratings.overall = 2
    /\ savedEntries[1].ratings.mood = 4
    /\ entry.ratings.overall = 3
    /\ entry.ratings.mood = 5

\* C26: addTodo on blank input changes nothing, otherwise it appends one
\* todo, not completed, of the selected priority; every todo of the
\* working entry has non-blank text; toggleTodo(i) flips the completed flag
\* of todo i only, and doing it again gives the list back; removeTodo(i)
\* removes todo i and keeps the others in order; none of them touches the
\* saved entries or the durable record.
C26_TodoList ==
    [][ LET todos  == entry.todos
            todos2 == entry'.todos
        IN /\ addTodo =>
                 /\ Trim(newTodo) = "" => (entry' = entry /\ newTodo' = newTodo)
                 /\ Trim(newTodo) # "" =>
                       /\ Len(todos2) = Len(todos) + 1
                       /\ SubSeq(todos2, 1, Len(todos)) = todos
                       /\ todos2[Len(todos2)].text = newTodo
                       /\ todos2[Len(todos2)].completed = FALSE
                       /\ todos2[Len(todos2)].priority = todoPriority
                 /\ UNCHANGED << savedEntries, localStorage >>
           /\ \A index \in 1..Len(todos) :
                 toggleTodo(index) =>
                    /\ Len(todos2) = Len(todos)
                    /\ \A j \in 1..Len(todos) :
                          /\ todos2[j].text = todos[j].text
                          /\ todos2[j].priority = todos[j].priority
                          /\ todos2[j].completed = (IF j = index THEN ~todos[j].completed
                                                    ELSE todos[j].completed)
                    /\ [j \in 1..Len(todos2) |->
                          IF j = index THEN [todos2[j] EXCEPT !.completed = ~@] ELSE todos2[j]]
                         = todos
                    /\ UNCHANGED << savedEntries, localStorage >>
           /\ \A index \in 1..Len(todos) :
                 removeTodo(index) =>
                    /\ Len(todos2) = Len(todos) - 1
                    /\ \A j \in 1..Len(todos2) :
                          todos2[j] = (IF j < index THEN todos[j] ELSE todos[j + 1])
                    /\ UNCHANGED << savedEntries, localStorage >>
           /\ \A j \in 1..Len(todos2) : Trim(todos2[j].text) # "" ]_vars

\* C26 witness: with an entry in the store, the second of two todos of
\* different priorities has been toggled and blank text is in the input.
C26_Witness ==
    /\ Len(savedEntries) = 1
    /\ Len(entry.todos) = 2
    /\ entry.todos[1].priority = "high"
    /\ ~entry.todos[1].completed
    /\ entry.todos[2].priority = "low"
    /\ entry.todos[2].completed
    /\ newTodo = " "

\* C27: a rating of 0 is no rating: the self-care message is shown only
\* when an entry of the window has a mood rating other than 0.
C27_SelfCareNeedsMoodRating ==
    LET window   == RecentEntries(savedEntries)
        insights == Insights(savedEntries)
    IN (Len(savedEntries) > 0 /\ \E i \in 1..Len(insights) : insights[i] = "selfCare")
          => \E i \in 1..Len(window) : window[i].ratings.mood # 0

\* A save of the working entry went through.
Upserted == \E confirmOverwrite \in BOOLEAN : saveEntry(confirmOverwrite) /\ last'.alert = "saved"

\* C28 as stated: in one session no operation changes the date of the
\* working entry, and after the first successful upsert every further
\* upsert asks for confirmation and adds no entry.
C28_EveryFurtherUpsertConflicts ==
    [][ /\ entry'.date = entry.date
        /\ (Upserted /\ steps >= 1)
              => /\ last'.confirm = "accepted"
                 /\ Len(savedEntries') = Len(savedEntries) ]_vars

\* C28, amended: in one session no operation changes the date of the
\* working entry; an upsert made while the store holds an entry of that
\* date asks for confirmation and adds no entry; after the first
\* successful upsert that entry leaves the store only by a clear or by an
\* import completing on the collection it read before the upsert, and only
\* then does a further upsert add an entry.
C28_UpsertConflictsWhileStored ==
    [][ /\ entry'.date = entry.date
        /\ (Upserted /\ entry.date \in ExistingDates(savedEntries))
              => /\ last'.confirm = "accepted"
                 /\ Len(savedEntries') = Len(savedEntries)
        /\ (Upserted /\ entry.date \notin ExistingDates(savedEntries))
              => /\ last'.confirm = "none"
                 /\ Len(savedEntries') = Len(savedEntries) + 1
        /\ ( /\ steps >= 1
             /\ entry.date \in ExistingDates(savedEntries)
             /\ entry.date \notin ExistingDates(savedEntries') )
              => \/ clearAllData
                 \/ \E k \in 1..Len(pending) : onload(k) /\ last'.stale ]_vars

\* C28 witness: the second committed save of the session was a confirmed
\* overwrite of the first.
C28_Witness ==
    /\ steps = 2
    /\ last.op = "saveEntry"
    /\ last.confirm = "accepted"
    /\ Len(savedEntries) = 1
    /\ savedEntries[1].mainGoal = "a"

C30_ClearIsTwoStep ==
    [][ /\ clearAllData => showClearConfirm
        /\ (~showClearConfirm /\ showClearConfirm')
              => requestClear /\ Len(savedEntries) > 0
        /\ cancelClear
              => /\ ~showClearConfirm'
                 /\ UNCHANGED << savedEntries, localStorage, entry >>
        /\ (showClearConfirm /\ ~showClearConfirm')
              => cancelClear \/ clearAllData \/ Load ]_vars

\* C30 witness: a confirmed clear has emptied a store and closed the prompt
\* while the durable record of the entries is gone.
C30_Witness ==
    /\ last.op = "clearAllData"
    /\ last.alert = "cleared"
    /\ ~showClearConfirm
    /\ savedEntries = << >>
    /\ localStorage.journalEntries = NoItem

====
